---- MODULE Spec2Model ----
(***************************************************************************)
(* Ray and Plane of src/src/math (Ray.js, Plane.js) as a state machine.    *)
(*                                                                         *)
(* State: the receiver ray (origin, direction), the plane, the module-level*)
(* scratch vectors of both files, the arguments of the call and the result *)
(* the last call returned.  One action per method; every method is an      *)
(* operator translated statement by statement, threading the scratch       *)
(* vectors it writes and reads.                                            *)
(*                                                                         *)
(* Numbers.  A JavaScript Number is modelled by an exact value <<n, d>>:   *)
(* the rational n/d in lowest terms with d > 0, or +Infinity <<1, 0>>,     *)
(* -Infinity <<-1, 0>>, NaN <<0, 0>>.  The operations follow IEEE 754 on   *)
(* the non-finite values (0 * Infinity = NaN, every comparison with NaN is *)
(* false) and are exact on the finite ones; rounding is not modelled, and  *)
(* zero carries no sign (1 / 0 is +Infinity).                              *)
(***************************************************************************)
EXTENDS Integers, Sequences, FiniteSets, TLC

VARIABLES
    ray,      \* the receiver Ray: [origin, direction]
    plane,    \* the Plane: [normal, constant]
    scr,      \* the module-level scratch objects of Ray.js and Plane.js
    args,     \* the arguments the caller holds for its calls
    op,       \* the method called last
    out,      \* what that call returned (and the locals it ended with)
    budget    \* the number of calls the caller still makes

vars == <<ray, plane, scr, args, op, out, budget>>

----------------------------------------------------------------------------
(* const x = v; ... : the value v bound to the name x of the statements F *)

Bind(v, F(_)) == F(v)

----------------------------------------------------------------------------
(* JavaScript Number *)

RECURSIVE GCD(_, _)
GCD(a, b) == IF b = 0 THEN a ELSE GCD(b, a % b)

IAbs(i) == IF i < 0 THEN -i ELSE i

ISign(i) == IF i < 0 THEN -1 ELSE IF i > 0 THEN 1 ELSE 0

\* n/d in lowest terms; d = 0 gives the non-finite values
Norm(n, d) ==
    IF d = 0 THEN <<ISign(n), 0>>
    ELSE LET g == GCD(IAbs(n), IAbs(d))
         IN  <<(ISign(d) * n) \div g, IAbs(d) \div g>>

R(i) == <<i, 1>>

Zero == R(0)
One == R(1)
Two == R(2)
Half == <<1, 2>>
PosInf == <<1, 0>>
NegInf == <<-1, 0>>
NaN == <<0, 0>>

IsNaN(a) == a = NaN
IsFinite(a) == a[2] # 0

\* a + b
RAdd(a, b) ==
    IF a[2] = 0 /\ b[2] = 0
    THEN (IF a = b THEN a ELSE NaN)
    ELSE LET g == GCD(a[2], b[2])
         IN  Norm(a[1] * (b[2] \div g) + b[1] * (a[2] \div g), (a[2] \div g) * b[2])

\* - a
RNeg(a) == <<-a[1], a[2]>>

\* a - b
RSub(a, b) == RAdd(a, RNeg(b))

\* a * b
RMul(a, b) ==
    IF a[2] = 0 \/ b[2] = 0
    THEN Norm(a[1] * b[1], 0)
    ELSE LET g == GCD(IAbs(a[1]), b[2])
             h == GCD(IAbs(b[1]), a[2])
         IN  Norm((a[1] \div g) * (b[1] \div h), (a[2] \div h) * (b[2] \div g))

\* a / b
RDiv(a, b) ==
    IF IsNaN(a) \/ IsNaN(b) THEN NaN
    ELSE IF a[2] = 0 /\ b[2] = 0 THEN NaN
    ELSE IF b[2] = 0 THEN Zero
    ELSE IF b[1] = 0 THEN Norm(a[1], 0)
    ELSE RMul(a, <<b[2] * ISign(b[1]), IAbs(b[1])>>)

\* 1 / a
RInv(a) == RDiv(One, a)

\* a < b
RLt(a, b) ==
    IF IsNaN(a) \/ IsNaN(b) THEN FALSE
    ELSE IF a[2] = 0 /\ b[2] = 0 THEN a[1] < b[1]
    ELSE LET g == GCD(a[2], b[2])
         IN  a[1] * (b[2] \div g) < b[1] * (a[2] \div g)

\* a > b
RGt(a, b) == RLt(b, a)

\* a === b
REq(a, b) == ~IsNaN(a) /\ a = b

\* a <= b
RLe(a, b) == RLt(a, b) \/ REq(a, b)

\* a >= b
RGe(a, b) == RLe(b, a)

\* Math.max( a, b )
RMax(a, b) == IF IsNaN(a) \/ IsNaN(b) THEN NaN ELSE IF RLt(a, b) THEN b ELSE a

\* Math.min( a, b )
RMin(a, b) == IF IsNaN(a) \/ IsNaN(b) THEN NaN ELSE IF RLt(b, a) THEN b ELSE a

\* Math.abs( a )
RAbs(a) == <<IAbs(a[1]), a[2]>>

IsSquare(i) == \E k \in 0..i : k * k = i

ISqrt(i) == CHOOSE k \in 0..i : k * k = i

\* Math.sqrt( a ), for the values whose root is rational
HasRSqrt(a) == a[2] # 0 /\ a[1] >= 0 /\ IsSquare(a[1]) /\ IsSquare(a[2])

RSqrt(a) == <<ISqrt(a[1]), ISqrt(a[2])>>

----------------------------------------------------------------------------
(* Vector3: <<x, y, z>> *)

V(x, y, z) == <<R(x), R(y), R(z)>>

ZeroVec == V(0, 0, 0)

\* target.subVectors( a, b )
SubVectors(a, b) == <<RSub(a[1], b[1]), RSub(a[2], b[2]), RSub(a[3], b[3])>>

\* v.add( w )
Add(v, w) == <<RAdd(v[1], w[1]), RAdd(v[2], w[2]), RAdd(v[3], w[3])>>

\* v.multiplyScalar( s )
MultiplyScalar(v, s) == <<RMul(v[1], s), RMul(v[2], s), RMul(v[3], s)>>

\* v.dot( w )
Dot(v, w) == RAdd(RAdd(RMul(v[1], w[1]), RMul(v[2], w[2])), RMul(v[3], w[3]))

\* target.crossVectors( a, b )
CrossVectors(a, b) ==
    << RSub(RMul(a[2], b[3]), RMul(a[3], b[2])),
       RSub(RMul(a[3], b[1]), RMul(a[1], b[3])),
       RSub(RMul(a[1], b[2]), RMul(a[2], b[1])) >>

\* v.lengthSq()
LengthSq(v) == Dot(v, v)

\* v.length()
Length(v) == RSqrt(LengthSq(v))

\* v.distanceToSquared( w )
DistanceToSquared(v, w) == LengthSq(SubVectors(v, w))

\* v.distanceTo( w )
DistanceTo(v, w) == RSqrt(DistanceToSquared(v, w))

\* v.normalize(): divideScalar( length() || 1 )
Normalize(v) == MultiplyScalar(v, RInv(IF LengthSq(v) = Zero THEN One ELSE Length(v)))

----------------------------------------------------------------------------
(* Module-level scratch objects of Ray.js and Plane.js *)

IdentityMat == <<V(1, 0, 0), V(0, 1, 0), V(0, 0, 1)>>

\* new Vector3() is (0, 0, 0); new Matrix3() is the identity
FreshScratch ==
    [ _vector |-> ZeroVec, _segCenter |-> ZeroVec, _segDir |-> ZeroVec,
      _diff |-> ZeroVec, _edge1 |-> ZeroVec, _edge2 |-> ZeroVec,
      _normal |-> ZeroVec,
      _vector1 |-> ZeroVec, _vector2 |-> ZeroVec, _normalMatrix |-> IdentityMat ]

\* null
Null == <<>>

----------------------------------------------------------------------------
(* Ray: this = [origin, direction] *)

\* at( t, target )
At(this, t) == Add(MultiplyScalar(this.direction, t), this.origin)

Recast_Stale(this, t, s) == [ray |-> [this EXCEPT !.origin = s._vector], scr |-> s]

\* recast( t ): the ray after the call, and the scratch
Recast(this, t, s) ==
    Bind([s EXCEPT !._vector = At(this, t)], LAMBDA s1 :
        [ray |-> [this EXCEPT !.origin = s1._vector], scr |-> s1])

BehindOrigin_Never(directionDistance) == FALSE

\* if ( directionDistance < 0 ): the point is behind the origin
BehindOrigin(directionDistance) == RLt(directionDistance, Zero)

ClosestPointToPoint_NoClamp(this, point) ==
    Add(MultiplyScalar(this.direction, Dot(SubVectors(point, this.origin), this.direction)),
        this.origin)

\* closestPointToPoint( point, target )
ClosestPointToPoint(this, point) ==
    Bind(SubVectors(point, this.origin), LAMBDA target1 :
    Bind(Dot(target1, this.direction), LAMBDA directionDistance :
        IF BehindOrigin(directionDistance)
        THEN this.origin
        ELSE Add(MultiplyScalar(this.direction, directionDistance), this.origin)))

\* distanceSqToPoint( point )
DistanceSqToPoint(this, point, s) ==
    Bind([s EXCEPT !._vector = SubVectors(point, this.origin)], LAMBDA s1 :
    Bind(Dot(s1._vector, this.direction), LAMBDA directionDistance :
        IF BehindOrigin(directionDistance)
        THEN [ret |-> DistanceToSquared(this.origin, point), scr |-> s1]
        ELSE
        Bind([s1 EXCEPT !._vector =
                 Add(MultiplyScalar(this.direction, directionDistance), this.origin)],
             LAMBDA s2 :
            [ret |-> DistanceToSquared(s2._vector, point), scr |-> s2])))

----------------------------------------------------------------------------
(* Math.sqrt of a value whose root is irrational: the numbers p + q * sqrt(r) *)
(* as <<p, q, r>>, p, q, r rational, q = 0 and r = 0 when the value is rational *)

Surd(p) == <<p, Zero, Zero>>

\* Math.sqrt( x ), x >= 0
Sqrt(x) == IF HasRSqrt(x) THEN Surd(RSqrt(x)) ELSE <<Zero, One, x>>

\* a - t and a + t, a rational
SurdSubFrom(a, t) == <<RSub(a, t[1]), RNeg(t[2]), t[3]>>
SurdAddTo(a, t) == <<RAdd(a, t[1]), t[2], t[3]>>

\* t < 0
SurdLtZero(t) ==
    IF t[2] = Zero THEN RLt(t[1], Zero)
    ELSE IF RGt(t[2], Zero)
         THEN RLt(t[1], Zero) /\ RLt(RMul(RMul(t[2], t[2]), t[3]), RMul(t[1], t[1]))
         ELSE RLe(t[1], Zero) \/ RLt(RMul(t[1], t[1]), RMul(RMul(t[2], t[2]), t[3]))

\* at( t, target ) for such a t: the point <<P, Q, r>> = P + Q * sqrt(r)
SurdAt(this, t) ==
    << Add(MultiplyScalar(this.direction, t[1]), this.origin),
       MultiplyScalar(this.direction, t[2]), t[3] >>

\* lines 313-330: the two candidate hits
SphereHit(this, tca, thc, s1) ==
    Bind(SurdSubFrom(tca, thc), LAMBDA t0 :
    Bind(SurdAddTo(tca, thc), LAMBDA t1 :
        IF SurdLtZero(t0) /\ SurdLtZero(t1) THEN [ret |-> Null, scr |-> s1]
        ELSE IF SurdLtZero(t0) THEN [ret |-> SurdAt(this, t1), scr |-> s1]
        ELSE [ret |-> SurdAt(this, t0), scr |-> s1]))

\* intersectSphere( sphere, target )
IntersectSphere(this, sphere, s) ==
    Bind([s EXCEPT !._vector = SubVectors(sphere.center, this.origin)], LAMBDA s1 :
    Bind(Dot(s1._vector, this.direction), LAMBDA tca :
    Bind(RSub(Dot(s1._vector, s1._vector), RMul(tca, tca)), LAMBDA d2 :
    Bind(RMul(sphere.radius, sphere.radius), LAMBDA radius2 :
        IF RGt(d2, radius2) THEN [ret |-> Null, scr |-> s1]
        ELSE SphereHit(this, tca, Sqrt(RSub(radius2, d2)), s1)))))

IntersectsSphere_Strict(this, sphere, s) ==
    Bind(DistanceSqToPoint(this, sphere.center, s), LAMBDA r :
        [ret |-> RLt(r.ret, RMul(sphere.radius, sphere.radius)), scr |-> r.scr])

\* intersectsSphere( sphere )
IntersectsSphere(this, sphere, s) ==
    Bind(DistanceSqToPoint(this, sphere.center, s), LAMBDA r :
        [ret |-> RLe(r.ret, RMul(sphere.radius, sphere.radius)), scr |-> r.scr])

----------------------------------------------------------------------------
(* Plane: pl = [normal, constant] *)

\* Plane.distanceToPoint( point )
PlaneDistanceToPoint(pl, point) == RAdd(Dot(pl.normal, point), pl.constant)

AheadOrNull_Strict(t) == IF RGt(t, Zero) THEN t ELSE Null

\* return t >= 0 ? t : null
AheadOrNull(t) == IF RGe(t, Zero) THEN t ELSE Null

\* Ray.distanceToPlane( plane )
DistanceToPlane(this, pl) ==
    Bind(Dot(pl.normal, this.direction), LAMBDA denominator :
        IF REq(denominator, Zero)
        THEN (IF REq(PlaneDistanceToPoint(pl, this.origin), Zero) THEN Zero ELSE Null)
        ELSE AheadOrNull(RDiv(RNeg(RAdd(Dot(this.origin, pl.normal), pl.constant)),
                              denominator)))

\* Ray.intersectPlane( plane, target )
IntersectPlane(this, pl) ==
    Bind(DistanceToPlane(this, pl), LAMBDA t :
        IF t = Null THEN Null ELSE At(this, t))

IntersectsPlane_OffPlane(this, pl) ==
    RLt(RMul(Dot(pl.normal, this.direction), PlaneDistanceToPoint(pl, this.origin)), Zero)

\* Ray.intersectsPlane( plane )
IntersectsPlane(this, pl) ==
    Bind(PlaneDistanceToPoint(pl, this.origin), LAMBDA distToPoint :
        IF REq(distToPoint, Zero) THEN TRUE
        ELSE Bind(Dot(pl.normal, this.direction), LAMBDA denominator :
                 IF RLt(RMul(denominator, distToPoint), Zero) THEN TRUE ELSE FALSE))

----------------------------------------------------------------------------
(* Ray.intersectBox: box = [min, max].  The result carries the locals tmin  *)
(* and tmax as they stand at the return.                                    *)

\* the slab of one axis: lines 446-456, 458-468, 479-489
Slab(invdir, lo, hi, o) ==
    IF RGe(invdir, Zero)
    THEN [tmin |-> RMul(RSub(lo, o), invdir), tmax |-> RMul(RSub(hi, o), invdir)]
    ELSE [tmin |-> RMul(RSub(hi, o), invdir), tmax |-> RMul(RSub(lo, o), invdir)]

NarrowMin_NoNaN(tmin, tymin) == IF RGt(tymin, tmin) THEN tymin ELSE tmin

\* if ( tymin > tmin || tmin !== tmin ) tmin = tymin
NarrowMin(tmin, tymin) == IF RGt(tymin, tmin) \/ IsNaN(tmin) THEN tymin ELSE tmin

\* if ( tymax < tmax || tmax !== tmax ) tmax = tymax
NarrowMax(tmax, tymax) == IF RLt(tymax, tmax) \/ IsNaN(tmax) THEN tymax ELSE tmax

\* lines 499-501
BoxResult(this, tmin, tmax) ==
    IF RLt(tmax, Zero)
    THEN [ret |-> Null, tmin |-> tmin, tmax |-> tmax]
    ELSE [ret |-> At(this, IF RGe(tmin, Zero) THEN tmin ELSE tmax),
          tmin |-> tmin, tmax |-> tmax]

\* lines 479-495: the z slab
BoxZ(this, box, tmin, tmax) ==
    Bind(Slab(RDiv(One, this.direction[3]), box.min[3], box.max[3], this.origin[3]),
         LAMBDA tz :
        IF RGt(tmin, tz.tmax) \/ RGt(tz.tmin, tmax)
        THEN [ret |-> Null, tmin |-> tmin, tmax |-> tmax]
        ELSE BoxResult(this, NarrowMin(tmin, tz.tmin), NarrowMax(tmax, tz.tmax)))

\* intersectBox( box, target )
IntersectBox(this, box) ==
    Bind(Slab(RDiv(One, this.direction[1]), box.min[1], box.max[1], this.origin[1]),
         LAMBDA tx :
    Bind(Slab(RDiv(One, this.direction[2]), box.min[2], box.max[2], this.origin[2]),
         LAMBDA ty :
        IF RGt(tx.tmin, ty.tmax) \/ RGt(ty.tmin, tx.tmax)
        THEN [ret |-> Null, tmin |-> tx.tmin, tmax |-> tx.tmax]
        ELSE BoxZ(this, box, NarrowMin(tx.tmin, ty.tmin), NarrowMax(tx.tmax, ty.tmax))))

\* intersectsBox( box ): the target of intersectBox is _vector
IntersectsBox(this, box, s) ==
    Bind(IntersectBox(this, box), LAMBDA r :
        [ret |-> r.ret # Null,
         scr |-> IF r.ret = Null THEN s ELSE [s EXCEPT !._vector = r.ret]])

----------------------------------------------------------------------------
(* Ray.intersectTriangle *)

\* lines 558-595: the barycentric numerators and the ray parameter
TriangleSolve(this, a, sign, DdN, s3) ==
    Bind([s3 EXCEPT !._diff = SubVectors(this.origin, a)], LAMBDA s4 :
    Bind([s4 EXCEPT !._edge2 = CrossVectors(s4._diff, s4._edge2)], LAMBDA s5 :
    Bind(RMul(sign, Dot(this.direction, s5._edge2)), LAMBDA DdQxE2 :
        IF RLt(DdQxE2, Zero) THEN [ret |-> Null, scr |-> s5]
        ELSE
        Bind([s5 EXCEPT !._edge1 = CrossVectors(s5._edge1, s5._diff)], LAMBDA s6 :
        Bind(RMul(sign, Dot(this.direction, s6._edge1)), LAMBDA DdE1xQ :
            IF RLt(DdE1xQ, Zero) THEN [ret |-> Null, scr |-> s6]
            ELSE IF RGt(RAdd(DdQxE2, DdE1xQ), DdN) THEN [ret |-> Null, scr |-> s6]
            ELSE
            Bind(RMul(RNeg(sign), Dot(s6._diff, s6._normal)), LAMBDA QdN :
                IF RLt(QdN, Zero) THEN [ret |-> Null, scr |-> s6]
                ELSE [ret |-> At(this, RDiv(QdN, DdN)), scr |-> s6]))))))

TriangleSide_NoCull(this, a, backfaceCulling, DdN, s3) ==
    IF RGt(DdN, Zero) THEN TriangleSolve(this, a, One, DdN, s3)
    ELSE IF RLt(DdN, Zero) THEN TriangleSolve(this, a, RNeg(One), RNeg(DdN), s3)
    ELSE [ret |-> Null, scr |-> s3]

\* lines 539-556: the side of the triangle the ray comes from
TriangleSide(this, a, backfaceCulling, DdN, s3) ==
    IF RGt(DdN, Zero)
    THEN (IF backfaceCulling THEN [ret |-> Null, scr |-> s3]
          ELSE TriangleSolve(this, a, One, DdN, s3))
    ELSE IF RLt(DdN, Zero)
    THEN TriangleSolve(this, a, RNeg(One), RNeg(DdN), s3)
    ELSE [ret |-> Null, scr |-> s3]

\* intersectTriangle( a, b, c, backfaceCulling, target )
IntersectTriangle(this, a, b, c, backfaceCulling, s) ==
    Bind([s EXCEPT !._edge1 = SubVectors(b, a)], LAMBDA s1 :
    Bind([s1 EXCEPT !._edge2 = SubVectors(c, a)], LAMBDA s2 :
    Bind([s2 EXCEPT !._normal = CrossVectors(s2._edge1, s2._edge2)], LAMBDA s3 :
        TriangleSide(this, a, backfaceCulling, Dot(this.direction, s3._normal), s3))))

----------------------------------------------------------------------------
(* Ray.distanceSqToSegment.  The result carries the locals s0, s1 and the   *)
(* branch taken (region 0..5, 6 for the parallel case), and the two         *)
(* optional output points.                                                  *)

ClampToSegment_Centre(segExtent, b1) == RMin(RMax(RNeg(segExtent), Zero), segExtent)

\* Math.min( Math.max( - segExtent, - b1 ), segExtent )
ClampToSegment(segExtent, b1) == RMin(RMax(RNeg(segExtent), RNeg(b1)), segExtent)

\* - s0 * s0 + s1 * ( s1 + 2 * b1 ) + c
EndSqrDist(s0, s1, b1, c) ==
    RAdd(RAdd(RNeg(RMul(s0, s0)), RMul(s1, RAdd(s1, RMul(Two, b1)))), c)

\* s0 * ( s0 + a01 * s1 + 2 * b0 ) + s1 * ( a01 * s0 + s1 + 2 * b1 ) + c
InteriorSqrDist(s0, s1, a01, b0, b1, c) ==
    RAdd(RAdd(RMul(s0, RAdd(RAdd(s0, RMul(a01, s1)), RMul(Two, b0))),
              RMul(s1, RAdd(RAdd(RMul(a01, s0), s1), RMul(Two, b1)))),
         c)

\* region 0, lines 217-220
Region0(s0, s1, a01, b0, b1, c, det) ==
    Bind(RDiv(One, det), LAMBDA invDet :
    Bind(RMul(s0, invDet), LAMBDA s0n :
    Bind(RMul(s1, invDet), LAMBDA s1n :
        [region |-> 0, s0 |-> s0n, s1 |-> s1n,
         sqrDist |-> InteriorSqrDist(s0n, s1n, a01, b0, b1, c)])))

SegmentEnd_NoMax(region, s1, a01, b0, b1, c) ==
    Bind(RNeg(RAdd(RMul(a01, s1), b0)), LAMBDA s0 :
        [region |-> region, s0 |-> s0, s1 |-> s1, sqrDist |-> EndSqrDist(s0, s1, b1, c)])

\* regions 1 and 5 and the parallel case, lines 226-228, 236-238, 277-278:
\* s1 is an end of the segment, s0 = Math.max( 0, - ( a01 * s1 + b0 ) )
SegmentEnd(region, s1, a01, b0, b1, c) ==
    Bind(RMax(Zero, RNeg(RAdd(RMul(a01, s1), b0))), LAMBDA s0 :
        [region |-> region, s0 |-> s0, s1 |-> s1, sqrDist |-> EndSqrDist(s0, s1, b1, c)])

\* regions 4 and 2, lines 248-250, 264-266: end is - segExtent or segExtent
RayStart(region, s0, end, segExtent, b1, c) ==
    Bind(IF RGt(s0, Zero) THEN end ELSE ClampToSegment(segExtent, b1), LAMBDA s1 :
        [region |-> region, s0 |-> s0, s1 |-> s1, sqrDist |-> EndSqrDist(s0, s1, b1, c)])

\* region 3, lines 256-258
Region3(segExtent, b1, c) ==
    Bind(ClampToSegment(segExtent, b1), LAMBDA s1 :
        [region |-> 3, s0 |-> Zero, s1 |-> s1,
         sqrDist |-> RAdd(RMul(s1, RAdd(s1, RMul(Two, b1))), c)])

\* lines 208-270: the ray and the segment are not parallel
NotParallel(s0, s1, extDet, a01, b0, b1, c, det, segExtent) ==
    IF RGe(s0, Zero)
    THEN IF RGe(s1, RNeg(extDet))
         THEN IF RLe(s1, extDet)
              THEN Region0(s0, s1, a01, b0, b1, c, det)
              ELSE SegmentEnd(1, segExtent, a01, b0, b1, c)
         ELSE SegmentEnd(5, RNeg(segExtent), a01, b0, b1, c)
    ELSE IF RLe(s1, RNeg(extDet))
         THEN RayStart(4, RMax(Zero, RNeg(RAdd(RMul(RNeg(a01), segExtent), b0))),
                       RNeg(segExtent), segExtent, b1, c)
         ELSE IF RLe(s1, extDet)
         THEN Region3(segExtent, b1, c)
         ELSE RayStart(2, RMax(Zero, RNeg(RAdd(RMul(a01, segExtent), b0))),
                       segExtent, segExtent, b1, c)

\* lines 200-280: the case analysis
SegmentRegions(a01, b0, b1, c, det, segExtent) ==
    IF RGt(det, Zero)
    THEN NotParallel(RSub(RMul(a01, b1), b0), RSub(RMul(a01, b0), b1),
                     RMul(segExtent, det), a01, b0, b1, c, det, segExtent)
    ELSE SegmentEnd(6, IF RGt(a01, Zero) THEN RNeg(segExtent) ELSE segExtent,
                    a01, b0, b1, c)

\* lines 192-294
SegmentResult(this, segExtent, r, sc) ==
    [ret |-> r.sqrDist, region |-> r.region, s0 |-> r.s0, s1 |-> r.s1,
     segExtent |-> segExtent,
     pointOnRay |-> Add(MultiplyScalar(this.direction, r.s0), this.origin),
     pointOnSegment |-> Add(MultiplyScalar(sc._segDir, r.s1), sc._segCenter),
     scr |-> sc]

\* distanceSqToSegment( v0, v1, optionalPointOnRay, optionalPointOnSegment )
DistanceSqToSegment(this, v0, v1, s) ==
    Bind([s EXCEPT !._segCenter = MultiplyScalar(Add(v0, v1), Half)], LAMBDA sa :
    Bind([sa EXCEPT !._segDir = Normalize(SubVectors(v1, v0))], LAMBDA sb :
    Bind([sb EXCEPT !._diff = SubVectors(this.origin, sb._segCenter)], LAMBDA sc :
    Bind(RMul(DistanceTo(v0, v1), Half), LAMBDA segExtent :
    Bind(RNeg(Dot(this.direction, sc._segDir)), LAMBDA a01 :
        SegmentResult(this, segExtent,
            SegmentRegions(a01, Dot(sc._diff, this.direction),
                           RNeg(Dot(sc._diff, sc._segDir)), LengthSq(sc._diff),
                           RAbs(RSub(One, RMul(a01, a01))), segExtent),
            sc))))))

----------------------------------------------------------------------------
(* Matrix3 and affine Matrix4: a 3x3 matrix is its three rows, a Matrix4 is  *)
(* [m |-> its upper 3x3 part, t |-> its translation column]                 *)

\* v.applyMatrix3( m )
ApplyMatrix3(v, m) == <<Dot(m[1], v), Dot(m[2], v), Dot(m[3], v)>>

\* v.applyMatrix4( matrix ), matrix affine (w = 1)
ApplyMatrix4(v, matrix) == Add(ApplyMatrix3(v, matrix.m), matrix.t)

\* target.getNormalMatrix( matrix ): the inverse transpose of the upper 3x3 part
GetNormalMatrix(matrix) ==
    Bind(matrix.m, LAMBDA m :
    Bind(RDiv(One, Dot(m[1], CrossVectors(m[2], m[3]))), LAMBDA invDet :
        << MultiplyScalar(CrossVectors(m[2], m[3]), invDet),
           MultiplyScalar(CrossVectors(m[3], m[1]), invDet),
           MultiplyScalar(CrossVectors(m[1], m[2]), invDet) >>))

----------------------------------------------------------------------------
(* Plane methods that use the scratch objects of Plane.js *)

\* setFromNormalAndCoplanarPoint( normal, point )
SetFromNormalAndCoplanarPoint(normal, point) ==
    [normal |-> normal, constant |-> RNeg(Dot(point, normal))]

\* setFromCoplanarPoints( a, b, c )
SetFromCoplanarPoints(a, b, c, s) ==
    Bind([s EXCEPT !._vector1 = SubVectors(c, b)], LAMBDA s1 :
    Bind([s1 EXCEPT !._vector2 = SubVectors(a, b)], LAMBDA s2 :
    Bind([s2 EXCEPT !._vector1 = Normalize(CrossVectors(s2._vector1, s2._vector2))],
         LAMBDA s3 :
        [plane |-> SetFromNormalAndCoplanarPoint(s3._vector1, a), scr |-> s3])))

\* coplanarPoint( target )
CoplanarPoint(pl) == MultiplyScalar(pl.normal, RNeg(pl.constant))

LineCrossing_Inside(line, direction, t, s1) ==
    IF RLe(t, Zero) \/ RGe(t, One)
    THEN [ret |-> Null, scr |-> s1]
    ELSE [ret |-> Add(MultiplyScalar(direction, t), line.start), scr |-> s1]

\* lines 226-236
LineCrossing(line, direction, t, s1) ==
    IF RLt(t, Zero) \/ RGt(t, One)
    THEN [ret |-> Null, scr |-> s1]
    ELSE [ret |-> Add(MultiplyScalar(direction, t), line.start), scr |-> s1]

\* intersectLine( line, target ): line = [start, end]
IntersectLine(pl, line, s) ==
    Bind([s EXCEPT !._vector1 = SubVectors(line.end, line.start)], LAMBDA s1 :
    Bind(Dot(pl.normal, s1._vector1), LAMBDA denominator :
        IF REq(denominator, Zero)
        THEN (IF REq(PlaneDistanceToPoint(pl, line.start), Zero)
              THEN [ret |-> line.start, scr |-> s1]
              ELSE [ret |-> Null, scr |-> s1])
        ELSE LineCrossing(line, s1._vector1,
                 RDiv(RNeg(RAdd(Dot(line.start, pl.normal), pl.constant)), denominator),
                 s1)))

\* intersectsLine( line )
IntersectsLine(pl, line) ==
    Bind(PlaneDistanceToPoint(pl, line.start), LAMBDA startSign :
    Bind(PlaneDistanceToPoint(pl, line.end), LAMBDA endSign :
        (RLt(startSign, Zero) /\ RGt(endSign, Zero))
        \/ (RLt(endSign, Zero) /\ RGt(startSign, Zero))))

\* applyMatrix4( matrix, optionalNormalMatrix ) without the optional argument
PlaneApplyMatrix4(pl, matrix, s) ==
    Bind([s EXCEPT !._normalMatrix = GetNormalMatrix(matrix)], LAMBDA s1 :
    Bind([s1 EXCEPT !._vector1 = ApplyMatrix4(CoplanarPoint(pl), matrix)], LAMBDA s2 :
    Bind(Normalize(ApplyMatrix3(pl.normal, s2._normalMatrix)), LAMBDA normal :
        [plane |-> [normal |-> normal, constant |-> RNeg(Dot(s2._vector1, normal))],
         scr |-> s2])))

----------------------------------------------------------------------------
(* Bounds and input sets *)

CoordMax == 1
RadiusMax == 2
HalfMax == 2
BoxMax == 1
MaxCalls == 3

Coords == -CoordMax..CoordMax

Points == {V(x, y, z) : x \in Coords, y \in Coords, z \in Coords}

AxisDirs == {V(1, 0, 0), V(-1, 0, 0), V(0, 1, 0), V(0, -1, 0), V(0, 0, 1), V(0, 0, -1)}

\* unit vectors with components 3/5 and 4/5
Fifths == {<<3, 5>>, <<-3, 5>>, <<4, 5>>, <<-4, 5>>}

SlantDirs ==
    {v \in UNION {{<<p, q, Zero>>, <<p, Zero, q>>, <<Zero, p, q>>} : p \in Fifths, q \in Fifths} :
        LengthSq(v) = One}

\* Ray.js:18: the direction is normalized
UnitDirs == AxisDirs \cup SlantDirs

\* the origins a ray is constructed at
Origins == {V(0, 0, 0), V(1, 0, 0), V(1, -1, 2)}

Rays == [origin : Origins, direction : UnitDirs]

Spheres == [center : Points, radius : {R(i) : i \in 0..RadiusMax}]

Planes == [normal : UnitDirs \cup {V(0, 0, 2), V(1, -1, 0)}, constant : {R(i) : i \in Coords}]

\* the rays that meet the planes, the ray from (0, 0, 5) among them
PlaneRays == Rays \cup [origin : {V(0, 0, 5)}, direction : {V(0, 0, -1), V(0, 0, 1)}]

\* triangles with one corner fixed, one on the grid and one of six places,
\* the degenerate triangles among them
Triangles ==
    [ a : {V(-1, -1, 0)},
      b : Points,
      c : {V(-1, 1, 0), V(1, -1, 0), V(0, 1, 1), V(-1, -1, 2), V(1, 0, -1), V(-1, -1, 0)} ]

\* segments from a grid point to one of six places, the degenerate ones and
\* the ones that touch or lie in a plane among them
Lines ==
    [ start : Points,
      end : {V(0, 0, 0), V(1, 0, 0), V(0, 1, -1), V(-1, 1, 1), V(1, -1, 0), V(0, 0, 1)} ]

\* origins on the grid of half units
HalfCoords == {<<k, 2>> : k \in {i \in -HalfMax..HalfMax : i % 2 # 0}}
                 \cup {R(k) : k \in {i \in -HalfMax..HalfMax : 2 * i \in -HalfMax..HalfMax}}

HalfPoints == {<<x, y, z>> : x \in HalfCoords, y \in HalfCoords, z \in HalfCoords}

\* boxes with min <= max in every component
Boxes == [min : {V(-i, -i, -i) : i \in 0..BoxMax}, max : {V(j, j, j) : j \in 0..BoxMax}]

\* the rays that meet the segments: distances depend on the relative position
\* of ray and segment only, and the segments start at every grid point
SegmentRays == {r \in Rays : r.origin = V(1, 0, 0)}

\* segments between grid points, of rational length
Segments == {sg \in Points \X Points : HasRSqrt(DistanceToSquared(sg[1], sg[2]))}

\* new Plane(): Plane.js:24
DefaultPlane == [normal |-> V(1, 0, 0), constant |-> Zero]

\* new Ray(): Ray.js:27
DefaultRay == [origin |-> ZeroVec, direction |-> V(0, 0, -1)]

Scene1 ==
    [ point |-> V(1, 1, 0),
      sphere |-> [center |-> V(0, 0, -2), radius |-> One],
      box |-> [min |-> V(-1, -1, -3), max |-> V(1, 1, -1)],
      v0 |-> V(1, 1, -1), v1 |-> V(1, -1, -1),
      a |-> V(-1, -1, -1), b |-> V(2, -1, -1), c |-> V(-1, 2, -1),
      backfaceCulling |-> FALSE,
      t |-> One,
      line |-> [start |-> V(-1, 0, 0), end |-> V(1, 0, 0)],
      matrix |-> [m |-> <<V(0, -1, 0), V(1, 0, 0), V(0, 0, 1)>>, t |-> V(1, 0, 0)] ]

Scene2 ==
    [ point |-> V(0, -1, 2),
      sphere |-> [center |-> V(1, 0, 1), radius |-> Two],
      box |-> [min |-> V(0, 0, 0), max |-> V(2, 2, 2)],
      v0 |-> V(0, 2, 0), v1 |-> V(0, 2, 2),
      a |-> V(0, 0, 1), b |-> V(0, 2, 1), c |-> V(2, 0, 1),
      backfaceCulling |-> TRUE,
      t |-> Two,
      line |-> [start |-> V(0, 1, 0), end |-> V(0, 1, 2)],
      matrix |-> [m |-> <<V(2, 0, 0), V(0, 2, 0), V(0, 0, 2)>>, t |-> V(0, 1, 0)] ]

Scenes == {Scene1, Scene2}

SceneRays == {DefaultRay, [origin |-> V(0, 0, 0), direction |-> V(0, 0, 1)]}

----------------------------------------------------------------------------
(* The calls *)

\* what the caller sees of a result: everything but the scratch objects
Visible(r) == [f \in (DOMAIN r) \ {"scr"} |-> r[f]]

Called(m) ==
    /\ budget > 0
    /\ budget' = budget - 1
    /\ op' = m
    /\ UNCHANGED args

CallAt ==
    /\ Called("at")
    /\ out' = [ret |-> At(ray, args.t)]
    /\ UNCHANGED <<ray, plane, scr>>

CallRecast ==
    /\ Called("recast")
    /\ LET r == Recast(ray, args.t, scr)
       IN  ray' = r.ray /\ scr' = r.scr /\ out' = Visible(r)
    /\ UNCHANGED plane

CallClosestPointToPoint ==
    /\ Called("closestPointToPoint")
    /\ out' = [ret |-> ClosestPointToPoint(ray, args.point)]
    /\ UNCHANGED <<ray, plane, scr>>

CallDistanceSqToPoint ==
    /\ Called("distanceSqToPoint")
    /\ LET r == DistanceSqToPoint(ray, args.point, scr)
       IN  scr' = r.scr /\ out' = Visible(r)
    /\ UNCHANGED <<ray, plane>>

CallDistanceSqToSegment ==
    /\ Called("distanceSqToSegment")
    /\ LET r == DistanceSqToSegment(ray, args.v0, args.v1, scr)
       IN  scr' = r.scr /\ out' = Visible(r)
    /\ UNCHANGED <<ray, plane>>

CallIntersectSphere ==
    /\ Called("intersectSphere")
    /\ LET r == IntersectSphere(ray, args.sphere, scr)
       IN  scr' = r.scr /\ out' = Visible(r)
    /\ UNCHANGED <<ray, plane>>

CallIntersectsSphere ==
    /\ Called("intersectsSphere")
    /\ LET r == IntersectsSphere(ray, args.sphere, scr)
       IN  scr' = r.scr /\ out' = Visible(r)
    /\ UNCHANGED <<ray, plane>>

CallDistanceToPlane ==
    /\ Called("distanceToPlane")
    /\ out' = [ret |-> DistanceToPlane(ray, plane)]
    /\ UNCHANGED <<ray, plane, scr>>

CallIntersectPlane ==
    /\ Called("intersectPlane")
    /\ out' = [ret |-> IntersectPlane(ray, plane)]
    /\ UNCHANGED <<ray, plane, scr>>

CallIntersectsPlane ==
    /\ Called("intersectsPlane")
    /\ out' = [ret |-> IntersectsPlane(ray, plane)]
    /\ UNCHANGED <<ray, plane, scr>>

CallIntersectBox ==
    /\ Called("intersectBox")
    /\ out' = IntersectBox(ray, args.box)
    /\ UNCHANGED <<ray, plane, scr>>

CallIntersectsBox ==
    /\ Called("intersectsBox")
    /\ LET r == IntersectsBox(ray, args.box, scr)
       IN  scr' = r.scr /\ out' = Visible(r)
    /\ UNCHANGED <<ray, plane>>

CallIntersectTriangle ==
    /\ Called("intersectTriangle")
    /\ LET r == IntersectTriangle(ray, args.a, args.b, args.c, args.backfaceCulling, scr)
       IN  scr' = r.scr /\ out' = Visible(r)
    /\ UNCHANGED <<ray, plane>>

CallSetFromCoplanarPoints ==
    /\ Called("setFromCoplanarPoints")
    /\ LET r == SetFromCoplanarPoints(args.a, args.b, args.c, scr)
       IN  plane' = r.plane /\ scr' = r.scr /\ out' = Visible(r)
    /\ UNCHANGED ray

CallIntersectLine ==
    /\ Called("intersectLine")
    /\ LET r == IntersectLine(plane, args.line, scr)
       IN  scr' = r.scr /\ out' = Visible(r)
    /\ UNCHANGED <<ray, plane>>

CallIntersectsLine ==
    /\ Called("intersectsLine")
    /\ out' = [ret |-> IntersectsLine(plane, args.line)]
    /\ UNCHANGED <<ray, plane, scr>>

CallPlaneApplyMatrix4 ==
    /\ Called("applyMatrix4")
    /\ LET r == PlaneApplyMatrix4(plane, args.matrix, scr)
       IN  plane' = r.plane /\ scr' = r.scr /\ out' = Visible(r)
    /\ UNCHANGED ray

\* the caller turns to other arguments for its next calls
Arguments ==
    /\ budget > 0
    /\ args' \in Scenes \ {args}
    /\ UNCHANGED <<ray, plane, scr, op, out, budget>>

----------------------------------------------------------------------------
(* Spec: a caller that makes MaxCalls calls, in any order, on one ray and   *)
(* one plane, the scratch objects carrying over from call to call           *)

Init ==
    /\ ray \in SceneRays
    /\ plane = DefaultPlane
    /\ scr = FreshScratch
    /\ args \in Scenes
    /\ op = "new"
    /\ out = [ret |-> Null]
    /\ budget = MaxCalls

Next ==
    \/ CallAt
    \/ CallRecast
    \/ CallClosestPointToPoint
    \/ CallDistanceSqToPoint
    \/ CallDistanceSqToSegment
    \/ CallIntersectSphere
    \/ CallIntersectsSphere
    \/ CallDistanceToPlane
    \/ CallIntersectPlane
    \/ CallIntersectsPlane
    \/ CallIntersectBox
    \/ CallIntersectsBox
    \/ CallIntersectTriangle
    \/ CallSetFromCoplanarPoints
    \/ CallIntersectLine
    \/ CallIntersectsLine
    \/ CallPlaneApplyMatrix4
    \/ Arguments

Spec == Init /\ [][Next]_vars

----------------------------------------------------------------------------
(* Cross-call state: every query against other contents of the scratch *)

QueryMethods ==
    { "distanceSqToPoint", "distanceSqToSegment", "intersectSphere", "intersectsSphere",
      "intersectBox", "intersectsBox", "intersectTriangle", "recast",
      "setFromCoplanarPoints", "intersectLine", "applyMatrix4" }

\* scratch objects that earlier calls have left with other contents
StaleScratch ==
    [ _vector |-> V(1, -1, 2), _segCenter |-> V(-1, 0, 1), _segDir |-> V(0, 1, 0),
      _diff |-> V(2, 1, -1), _edge1 |-> V(1, 1, 0), _edge2 |-> V(0, -1, 1),
      _normal |-> V(1, 0, -1),
      _vector1 |-> V(-1, 2, 0), _vector2 |-> V(0, 1, 1),
      _normalMatrix |-> <<V(0, 1, 0), V(2, 0, 0), V(0, 0, -1)>> ]

\* the returned value, the ray and the plane after query m has run on the
\* current ray, plane and arguments with the scratch objects holding s
QueryOn(m, s) ==
    CASE m = "distanceSqToPoint" ->
            <<Visible(DistanceSqToPoint(ray, args.point, s)), ray, plane>>
      [] m = "distanceSqToSegment" ->
            <<Visible(DistanceSqToSegment(ray, args.v0, args.v1, s)), ray, plane>>
      [] m = "intersectSphere" ->
            <<Visible(IntersectSphere(ray, args.sphere, s)), ray, plane>>
      [] m = "intersectsSphere" ->
            <<Visible(IntersectsSphere(ray, args.sphere, s)), ray, plane>>
      [] m = "intersectBox" -> <<IntersectBox(ray, args.box), ray, plane>>
      [] m = "intersectsBox" ->
            <<Visible(IntersectsBox(ray, args.box, s)), ray, plane>>
      [] m = "intersectTriangle" ->
            <<Visible(IntersectTriangle(ray, args.a, args.b, args.c,
                                        args.backfaceCulling, s)), ray, plane>>
      [] m = "recast" ->
            Bind(Recast(ray, args.t, s), LAMBDA r : <<Visible(r), r.ray, plane>>)
      [] m = "setFromCoplanarPoints" ->
            Bind(SetFromCoplanarPoints(args.a, args.b, args.c, s),
                 LAMBDA r : <<Visible(r), ray, r.plane>>)
      [] m = "intersectLine" ->
            <<Visible(IntersectLine(plane, args.line, s)), ray, plane>>
      [] m = "applyMatrix4" ->
            Bind(PlaneApplyMatrix4(plane, args.matrix, s),
                 LAMBDA r : <<Visible(r), ray, r.plane>>)

\* C4: whatever the earlier calls have left in the scratch objects, a query
\* returns and writes what it returns and writes on freshly constructed
\* scratch objects, and on scratch objects with yet other contents
C4_NoCrossCallState ==
    [][(budget' < budget /\ op' \in QueryMethods) =>
          \A s \in {FreshScratch, StaleScratch} :
              <<out', ray', plane'>> = QueryOn(op', s)]_vars

\* intersectTriangle, which leaves _vector and _vector1 alone, has returned a
\* point after earlier calls that wrote both
C4_Witness ==
    /\ op = "intersectTriangle"
    /\ out.ret # Null
    /\ scr._vector # ZeroVec
    /\ scr._vector1 # ZeroVec
    /\ scr._edge1 # ZeroVec

----------------------------------------------------------------------------
(* SpecSphere: one call of intersectSphere or intersectsSphere on a ray with *)
(* unit direction and a sphere, both drawn from the input sets              *)

InitOneCall ==
    /\ plane = DefaultPlane
    /\ scr = FreshScratch
    /\ op = "new"
    /\ out = [ret |-> Null]
    /\ budget = 1

InitSphere ==
    /\ ray \in Rays
    /\ \E sphere \in Spheres : args = [Scene1 EXCEPT !.sphere = sphere]
    /\ InitOneCall

NextSphere == CallIntersectSphere \/ CallIntersectsSphere

SpecSphere == InitSphere /\ [][NextSphere]_vars

\* dot( center - origin, direction )
CenterProjection == Dot(SubVectors(args.sphere.center, ray.origin), ray.direction)

\* every point of the sphere has a positive projection on the direction
SphereAhead == RGt(CenterProjection, args.sphere.radius)

\* every point of the sphere has a negative projection on the direction
SphereBehind == RLt(CenterProjection, RNeg(args.sphere.radius))

\* the squared distance from the centre to the line that carries the ray
LineDistanceSq ==
    RSub(DistanceToSquared(args.sphere.center, ray.origin),
         RMul(CenterProjection, CenterProjection))

\* C1: for a unit direction and a sphere entirely ahead of the origin,
\* intersectSphere returns a point iff intersectsSphere returns true
C1_AheadAgree ==
    SphereAhead =>
        /\ op = "intersectSphere" =>
              ((out.ret # Null) <=> IntersectsSphere(ray, args.sphere, scr).ret)
        /\ op = "intersectsSphere" =>
              (out.ret <=> (IntersectSphere(ray, args.sphere, scr).ret # Null))

\* a sphere ahead that the ray touches in one point, reported by intersectSphere
C1_Witness ==
    /\ op = "intersectSphere"
    /\ SphereAhead
    /\ LineDistanceSq = RMul(args.sphere.radius, args.sphere.radius)
    /\ args.sphere.radius # Zero
    /\ out.ret # Null

\* C2 as stated: among the rays with unit direction and the spheres a caller
\* can hand over before its call, some ray and some sphere entirely behind its
\* origin make intersectsSphere and intersectSphere disagree
C2_BehindDisagree ==
    op = "new" =>
    \E r \in Rays, sphere \in Spheres :
        /\ RLt(Dot(SubVectors(sphere.center, r.origin), r.direction), RNeg(sphere.radius))
        /\ IntersectsSphere(r, sphere, FreshScratch).ret
              # (IntersectSphere(r, sphere, FreshScratch).ret # Null)

\* C2 amended: for a unit direction and a sphere entirely behind the origin
\* the two methods agree: intersectSphere returns null and intersectsSphere false
C2_BehindBothMiss ==
    SphereBehind =>
        /\ op = "intersectSphere" => out.ret = Null
        /\ op = "intersectsSphere" => out.ret = FALSE

\* a sphere behind the origin that the line carrying the ray goes through,
\* refused by intersectsSphere
C2_Witness ==
    /\ op = "intersectsSphere"
    /\ SphereBehind
    /\ RLt(LineDistanceSq, RMul(args.sphere.radius, args.sphere.radius))
    /\ out.ret = FALSE

----------------------------------------------------------------------------
(* SpecBox: one call of intersectBox or intersectsBox *)

InitBox ==
    /\ ray \in [origin : HalfPoints, direction : UnitDirs]
    /\ \E box \in Boxes : args = [Scene1 EXCEPT !.box = box]
    /\ InitOneCall

NextBox == CallIntersectBox \/ CallIntersectsBox

SpecBox == InitBox /\ [][NextBox]_vars

\* the scenario of C3: origin (-1, 0.5, 1), direction (0, 0, -1), box (-1,-1,-1)..(1,1,1)
C3_Scenario ==
    /\ ray = [origin |-> <<R(-1), Half, R(1)>>, direction |-> V(0, 0, -1)]
    /\ args.box = [min |-> V(-1, -1, -1), max |-> V(1, 1, 1)]
    /\ op = "intersectBox"

\* in the scenario the x slab starts at NaN (0 * Infinity), which the y slab's
\* bound replaces
C3_NaNReplaced ==
    /\ IsNaN(Slab(RDiv(One, ray.direction[1]), args.box.min[1], args.box.max[1],
                  ray.origin[1]).tmin)
    /\ NarrowMin(NaN, NegInf) = NegInf

\* C3 as stated: the scenario returns (-1, 0.5, 1) through the inside-box
\* branch: the final tmin is < 0 and the point returned is at( tmax )
C3_InsideBranch ==
    C3_Scenario =>
        /\ out.ret = <<R(-1), Half, R(1)>>
        /\ C3_NaNReplaced
        /\ RLt(out.tmin, Zero)
        /\ out.ret = At(ray, out.tmax)

\* C3 amended: the scenario returns (-1, 0.5, 1) through the tmin >= 0 branch:
\* the final tmin is 0, the final tmax is 2 and the point returned is at( tmin )
C3_OnFaceBranch ==
    C3_Scenario =>
        /\ out.ret = <<R(-1), Half, R(1)>>
        /\ C3_NaNReplaced
        /\ out.tmin = Zero
        /\ out.tmax = Two
        /\ out.ret = At(ray, out.tmin)
        /\ out.ret # At(ray, out.tmax)

\* intersectBox has run on the scenario
C3_Witness == C3_Scenario /\ out.ret # Null

----------------------------------------------------------------------------
(* SpecPoint: one call of distanceSqToPoint or closestPointToPoint on a ray *)
(* with unit direction and a point                                          *)

InitPoint ==
    /\ ray \in Rays
    /\ \E point \in Points : args = [Scene1 EXCEPT !.point = point]
    /\ InitOneCall

NextPoint == CallDistanceSqToPoint \/ CallClosestPointToPoint

SpecPoint == InitPoint /\ [][NextPoint]_vars

\* the projection parameter of the point: dot( point - origin, direction )
ProjectionParameter == Dot(SubVectors(args.point, ray.origin), ray.direction)

\* the t of point = origin + t * direction, if there is one, is the quotient of
\* the components along any axis on which the direction is not 0
HalfLineParameters ==
    {RDiv(SubVectors(args.point, ray.origin)[i], ray.direction[i]) :
        i \in {j \in 1..3 : ray.direction[j] # Zero}}

\* point = origin + t * direction for some t >= 0
OnForwardHalfLine == \E t \in HalfLineParameters : RGe(t, Zero) /\ At(ray, t) = args.point

\* C5: distanceSqToPoint( P ) is the squared distance from P to
\* closestPointToPoint( P ); it is 0 exactly when P is on the forward
\* half-line; with a negative projection parameter both methods use the origin
C5_DistanceToClosestPoint ==
    /\ op = "distanceSqToPoint" =>
          /\ out.ret = DistanceToSquared(ClosestPointToPoint(ray, args.point), args.point)
          /\ (out.ret = Zero) <=> OnForwardHalfLine
          /\ RLt(ProjectionParameter, Zero) =>
                out.ret = DistanceToSquared(ray.origin, args.point)
    /\ op = "closestPointToPoint" =>
          /\ DistanceToSquared(out.ret, args.point)
                = DistanceSqToPoint(ray, args.point, scr).ret
          /\ (out.ret = args.point) <=> OnForwardHalfLine
          /\ RLt(ProjectionParameter, Zero) => out.ret = ray.origin

\* distanceSqToPoint has returned 0 for a point ahead of the origin
C5_Witness ==
    /\ op = "distanceSqToPoint"
    /\ out.ret = Zero
    /\ args.point # ray.origin

\* closestPointToPoint has returned the origin for a point behind it
C5_WitnessBehind ==
    /\ op = "closestPointToPoint"
    /\ RLt(ProjectionParameter, Zero)
    /\ out.ret = ray.origin

----------------------------------------------------------------------------
(* SpecSegment: one call of distanceSqToSegment or distanceSqToPoint on a   *)
(* ray with unit direction and a segment v0, v1 (point = v0)                *)

InitSegment ==
    /\ ray \in SegmentRays
    /\ \E sg \in Segments : args = [Scene1 EXCEPT !.v0 = sg[1], !.v1 = sg[2], !.point = sg[1]]
    /\ InitOneCall

NextSegment == CallDistanceSqToSegment \/ CallDistanceSqToPoint

SpecSegment == InitSegment /\ [][NextSegment]_vars

\* dot( direction, v1 - v0 ) = 0
Perpendicular == Dot(ray.direction, SubVectors(args.v1, args.v0)) = Zero

\* the distance to the ray does not decrease when leaving endpoint e for the
\* other endpoint f: e is the point of the segment closest to the ray
ClosestAtEnd(e, f) ==
    RGe(Dot(SubVectors(e, ClosestPointToPoint(ray, e)), SubVectors(f, e)), Zero)

EndpointIsClosest == ClosestAtEnd(args.v0, args.v1) \/ ClosestAtEnd(args.v1, args.v0)

\* distanceSqToPoint of the endpoint that is closer to the ray
CloserEndpointDistanceSq ==
    RMin(DistanceSqToPoint(ray, args.v0, scr).ret, DistanceSqToPoint(ray, args.v1, scr).ret)

\* C6: with the direction perpendicular to the segment and an endpoint the
\* point of the segment closest to the ray, distanceSqToSegment( v0, v1 ) is
\* distanceSqToPoint of the closer endpoint
C6_PerpendicularEndpoint ==
    (op = "distanceSqToSegment" /\ Perpendicular /\ EndpointIsClosest) =>
        out.ret = CloserEndpointDistanceSq

\* the perpendicular case has been decided at an endpoint of a segment of
\* positive length, off the ray
C6_Witness ==
    /\ op = "distanceSqToSegment"
    /\ Perpendicular
    /\ EndpointIsClosest
    /\ args.v0 # args.v1
    /\ out.region \in {1, 2, 4, 5}
    /\ RGt(out.ret, Zero)

\* the fraction of the way from v0 to v1 at segment offset s1
SegmentFraction(s1, segExtent) ==
    IF segExtent = Zero THEN Zero ELSE RDiv(RAdd(s1, segExtent), RMul(Two, segExtent))

\* p = v0 + f * ( v1 - v0 ) for an f between 0 and 1
BetweenEnds(p, f) ==
    /\ RGe(f, Zero)
    /\ RLe(f, One)
    /\ p = Add(args.v0, MultiplyScalar(SubVectors(args.v1, args.v0), f))

\* C10: whatever the branch, s0 >= 0 and - segExtent <= s1 <= segExtent, the
\* point reported on the ray is on its forward half-line, the point reported
\* on the segment is between v0 and v1, and the value returned is the squared
\* distance between the two
C10_ReportedPoints ==
    op = "distanceSqToSegment" =>
        /\ out.region \in 0..6
        /\ RGe(out.s0, Zero)
        /\ RLe(RNeg(out.segExtent), out.s1)
        /\ RLe(out.s1, out.segExtent)
        /\ out.pointOnRay = At(ray, out.s0)
        /\ BetweenEnds(out.pointOnSegment, SegmentFraction(out.s1, out.segExtent))
        /\ out.ret = DistanceToSquared(out.pointOnRay, out.pointOnSegment)

\* the ray is parallel to a segment of positive length that lies ahead of the
\* origin and off the ray
C10_Witness ==
    /\ op = "distanceSqToSegment"
    /\ out.region = 6
    /\ RGt(out.s0, Zero)
    /\ RGt(out.segExtent, Zero)
    /\ RGt(out.ret, Zero)

----------------------------------------------------------------------------
(* SpecPlane: one call of distanceToPlane, intersectPlane or intersectsPlane *)
(* on a ray with unit direction and a plane                                 *)

InitPlane ==
    /\ ray \in PlaneRays
    /\ plane \in Planes
    /\ args = Scene1
    /\ scr = FreshScratch
    /\ op = "new"
    /\ out = [ret |-> Null]
    /\ budget = 1

NextPlane == CallDistanceToPlane \/ CallIntersectPlane \/ CallIntersectsPlane

SpecPlane == InitPlane /\ [][NextPlane]_vars

\* dot( normal, direction )
Denominator == Dot(plane.normal, ray.direction)

\* dot( origin, normal ) + constant
OriginOffset == RAdd(Dot(ray.origin, plane.normal), plane.constant)

\* - ( dot( origin, normal ) + constant ) / dot( normal, direction )
CrossingParameter == RDiv(RNeg(OriginOffset), Denominator)

\* the four cases of C7
C7_Cases ==
    CASE Denominator = Zero /\ OriginOffset = Zero -> Zero
      [] Denominator = Zero /\ OriginOffset # Zero -> Null
      [] Denominator # Zero /\ RGe(CrossingParameter, Zero) -> CrossingParameter
      [] Denominator # Zero /\ RLt(CrossingParameter, Zero) -> Null

\* C7: distanceToPlane returns 0 for a ray parallel to the plane with its
\* origin on it, null for one parallel and off it, otherwise the crossing
\* parameter t if t >= 0 and null if t < 0; intersectPlane returns null
\* exactly when distanceToPlane does, otherwise at( t ), a point of the plane
C7_PlaneCases ==
    /\ op = "distanceToPlane" => out.ret = C7_Cases
    /\ op = "intersectPlane" =>
          /\ (out.ret = Null) <=> (DistanceToPlane(ray, plane) = Null)
          /\ out.ret # Null =>
                /\ out.ret = At(ray, DistanceToPlane(ray, plane))
                /\ RAdd(Dot(plane.normal, out.ret), plane.constant) = Zero
          /\ (ray.origin = V(0, 0, 5) /\ plane = [normal |-> V(0, 0, 1), constant |-> Zero]) =>
                out.ret = (IF ray.direction = V(0, 0, -1) THEN V(0, 0, 0) ELSE Null)

\* intersectPlane has returned (0, 0, 0) for the ray from (0, 0, 5)
C7_Witness ==
    /\ op = "intersectPlane"
    /\ ray = [origin |-> V(0, 0, 5), direction |-> V(0, 0, -1)]
    /\ plane = [normal |-> V(0, 0, 1), constant |-> Zero]
    /\ out.ret = V(0, 0, 0)

C9_WitnessInPlane ==
    /\ op = "intersectsPlane"
    /\ out.ret = TRUE
    /\ OriginOffset = Zero
    /\ Denominator = Zero

\* intersectsPlane has returned false for a ray parallel to the plane, off it
C9_WitnessParallel ==
    /\ op = "intersectsPlane"
    /\ out.ret = FALSE
    /\ OriginOffset # Zero
    /\ Denominator = Zero

----------------------------------------------------------------------------
(* SpecTriangle: one call of intersectTriangle on a ray with unit direction *)
(* and a triangle, with and without backface culling                        *)

InitTriangle ==
    /\ ray \in Rays
    /\ \E tri \in Triangles, cull \in BOOLEAN :
          args = [Scene1 EXCEPT !.a = tri.a, !.b = tri.b, !.c = tri.c,
                                !.backfaceCulling = cull]
    /\ InitOneCall

NextTriangle == CallIntersectTriangle

SpecTriangle == InitTriangle /\ [][NextTriangle]_vars

\* the quantities of the claim, from the corners as they were handed in
TriE1 == SubVectors(args.b, args.a)
TriE2 == SubVectors(args.c, args.a)
TriN == CrossVectors(TriE1, TriE2)
TriQ == SubVectors(ray.origin, args.a)
TriDdN == Dot(ray.direction, TriN)
TriSign == IF RGt(TriDdN, Zero) THEN One ELSE RNeg(One)
TriDdQxE2 == RMul(TriSign, Dot(ray.direction, CrossVectors(TriQ, TriE2)))
TriDdE1xQ == RMul(TriSign, Dot(ray.direction, CrossVectors(TriE1, TriQ)))
TriParameter == RDiv(RNeg(Dot(TriQ, TriN)), TriDdN)

TriCulled == RGt(TriDdN, Zero) /\ args.backfaceCulling

\* the conditions under which C8 has intersectTriangle return null
TriMiss ==
    \/ TriCulled
    \/ TriDdN = Zero
    \/ RLt(TriDdQxE2, Zero)
    \/ RLt(TriDdE1xQ, Zero)
    \/ RGt(RAdd(TriDdQxE2, TriDdE1xQ), RAbs(TriDdN))
    \/ RLt(TriParameter, Zero)

\* C8: intersectTriangle returns null when the triangle is culled, when
\* DdN = 0, when a barycentric numerator is negative, when their sum exceeds
\* |DdN| or when the ray parameter is negative, and at( t ) otherwise, the
\* overwritten edge vectors notwithstanding; a hit with backface culling is
\* the same point without it
C8_TriangleCases ==
    op = "intersectTriangle" =>
        /\ (out.ret = Null) <=> TriMiss
        /\ ~TriMiss =>
              /\ out.ret = At(ray, TriParameter)
              /\ Dot(TriN, SubVectors(out.ret, args.a)) = Zero
        /\ (args.backfaceCulling /\ out.ret # Null) =>
              IntersectTriangle(ray, args.a, args.b, args.c, FALSE, scr).ret = out.ret

\* a front-face hit inside the triangle, ahead of the origin, with culling
C8_Witness ==
    /\ op = "intersectTriangle"
    /\ args.backfaceCulling
    /\ out.ret # Null
    /\ RGt(TriDdQxE2, Zero)
    /\ RGt(TriDdE1xQ, Zero)
    /\ RLt(RAdd(TriDdQxE2, TriDdE1xQ), RAbs(TriDdN))
    /\ RGt(TriParameter, Zero)

\* a back-face hit without culling
C8_WitnessBackFace ==
    /\ op = "intersectTriangle"
    /\ ~args.backfaceCulling
    /\ RGt(TriDdN, Zero)
    /\ out.ret # Null

----------------------------------------------------------------------------
(* SpecLine: one call of Plane.intersectLine or Plane.intersectsLine on a   *)
(* plane and a segment                                                      *)

InitLine ==
    /\ ray = DefaultRay
    /\ plane \in Planes
    /\ \E line \in Lines : args = [Scene1 EXCEPT !.line = line]
    /\ scr = FreshScratch
    /\ op = "new"
    /\ out = [ret |-> Null]
    /\ budget = 1

NextLine == CallIntersectLine \/ CallIntersectsLine

SpecLine == InitLine /\ [][NextLine]_vars

\* the signed distances of the two endpoints: dot( normal, point ) + constant
StartDistance == RAdd(Dot(plane.normal, args.line.start), plane.constant)
EndDistance == RAdd(Dot(plane.normal, args.line.end), plane.constant)

\* the endpoints are strictly on opposite sides of the plane
StrictlyOpposite ==
    \/ RLt(StartDistance, Zero) /\ RGt(EndDistance, Zero)
    \/ RLt(EndDistance, Zero) /\ RGt(StartDistance, Zero)

\* an endpoint is on the plane: the segment touches it or lies in it
EndpointOnPlane == StartDistance = Zero \/ EndDistance = Zero

\* C11: intersectsLine is true exactly for endpoints strictly on opposite
\* sides, and then intersectLine returns a point; intersectLine returns a
\* point while intersectsLine is false exactly when an endpoint has signed
\* distance 0
C11_IntersectsImpliesPoint ==
    /\ op = "intersectsLine" =>
          /\ (out.ret = TRUE) <=> StrictlyOpposite
          /\ out.ret = TRUE => IntersectLine(plane, args.line, scr).ret # Null
          /\ (out.ret = FALSE /\ IntersectLine(plane, args.line, scr).ret # Null)
                <=> EndpointOnPlane
    /\ op = "intersectLine" =>
          /\ IntersectsLine(plane, args.line) => out.ret # Null
          /\ (out.ret # Null /\ ~IntersectsLine(plane, args.line)) <=> EndpointOnPlane
          /\ out.ret # Null => RAdd(Dot(plane.normal, out.ret), plane.constant) = Zero

\* intersectsLine has returned true for a segment that crosses the plane
C11_Witness ==
    /\ op = "intersectsLine"
    /\ out.ret = TRUE
    /\ IntersectLine(plane, args.line, scr).ret # Null

\* intersectLine has returned the end of a segment that touches the plane
\* there, where intersectsLine is false
C11_WitnessTouching ==
    /\ op = "intersectLine"
    /\ StartDistance # Zero
    /\ EndDistance = Zero
    /\ out.ret = args.line.end
    /\ ~IntersectsLine(plane, args.line)

\* intersectLine has returned the start of a segment of positive length that
\* lies in the plane
C11_WitnessCoplanar ==
    /\ op = "intersectLine"
    /\ StartDistance = Zero
    /\ EndDistance = Zero
    /\ args.line.start # args.line.end
    /\ out.ret = args.line.start

====
